---- MODULE Spec2Model ----
(***************************************************************************)
(* Model of codegen/utils.ts of deno-amqp: the helpers that turn an AMQP   *)
(* protocol description (classes, methods, arguments, domains) into        *)
(* TypeScript declarations and encode/decode functions.                    *)
(*                                                                         *)
(* Strings that the code inspects character by character (identifiers) are *)
(* sequences of one-character strings.  The text a synthesizer emits is    *)
(* modelled by its structure: the values interpolated into the template,   *)
(* in the order the template evaluates them.  A call returns Return(v) or  *)
(* Throw(e), e the exception thrown.                                       *)
(***************************************************************************)
EXTENDS Integers, Sequences, FiniteSets, TLC

VARIABLES schema, ident, arg, out, wire, sent

vars == <<schema, ident, arg, out, wire, sent>>

\* JavaScript's undefined, for a string-valued field that may be missing.
undefined == "undefined"

----------------------------------------------------------------------------
(* Bounds of the model. *)

\* longest generated identifier (the spec's own examples are added to these)
MaxLen == 3
\* longest domain table
MaxDomains == 2
\* most arguments of the method whose argument list varies
MaxArgs == 2
\* most properties of the class whose property list varies
MaxProps == 2
\* most classes of a schema whose shape varies
MaxClasses == 2
\* most methods of a class in a schema whose shape varies
MaxMethods == 2

----------------------------------------------------------------------------
(* Characters and identifiers *)

LowerLetters ==
  <<"a","b","c","d","e","f","g","h","i","j","k","l","m",
    "n","o","p","q","r","s","t","u","v","w","x","y","z">>

UpperLetters ==
  <<"A","B","C","D","E","F","G","H","I","J","K","L","M",
    "N","O","P","Q","R","S","T","U","V","W","X","Y","Z">>

\* String.prototype.toUpperCase on one character
toUpperCase(c) ==
  IF \E i \in 1..Len(LowerLetters) : LowerLetters[i] = c
  THEN UpperLetters[CHOOSE i \in 1..Len(LowerLetters) : LowerLetters[i] = c]
  ELSE c

\* String.prototype.toUpperCase on a string
toUpperCaseStr(s) == [i \in 1..Len(s) |-> toUpperCase(s[i])]

\* the character class [-\.] of the split pattern
isDelimiter(c) == c = "-" \/ c = "."

\* String.prototype.split(/[-\.]/g): the segments between delimiters; a
\* string without delimiter (the empty one too) is one segment.
RECURSIVE splitFrom(_, _, _)
splitFrom(s, i, cur) ==
  IF i > Len(s) THEN <<cur>>
  ELSE IF isDelimiter(s[i]) THEN <<cur>> \o splitFrom(s, i + 1, <<>>)
  ELSE splitFrom(s, i + 1, Append(cur, s[i]))

split(s) == splitFrom(s, 1, <<>>)

\* Array.prototype.join("") of a list of strings
RECURSIVE joinEmpty(_)
joinEmpty(parts) ==
  IF parts = <<>> THEN <<>> ELSE Head(parts) \o joinEmpty(Tail(parts))

capitalizeNoUpper(word) == word

\* capitalize: first character upper-cased, the rest as it is
capitalize(word) ==
  IF word = <<>> THEN <<>>
  ELSE <<toUpperCase(word[1])>> \o SubSeq(word, 2, Len(word))

\* camelCase: first segment as it is, every later segment capitalized
camelCase(name) ==
  LET parts == split(name)
      first == Head(parts)
      rest  == Tail(parts)
  IN  first \o joinEmpty([i \in 1..Len(rest) |-> capitalize(rest[i])])

\* pascalCase: every segment capitalized
pascalCase(name) ==
  LET parts == split(name)
  IN  joinEmpty([i \in 1..Len(parts) |-> capitalize(parts[i])])

\* constantName: every hyphen replaced by an underscore, then upper-cased
constantName(name) ==
  toUpperCaseStr([i \in 1..Len(name) |-> IF name[i] = "-" THEN "_" ELSE name[i]])

----------------------------------------------------------------------------
(* Results of a call: a returned value or a thrown exception *)

Return(v) == [ok |-> TRUE, val |-> v]
Throw(e) == [ok |-> FALSE, val |-> e]

\* throw new Error(`Cannot determine type ${arg}`)
CannotDetermineType == [kind |-> "Error: Cannot determine type"]
\* what reading [1] of undefined raises
TypeErrorOfUndefined == [kind |-> "TypeError: undefined has no properties"]
\* throw new Error(`Unknown type '${type}'`)
UnknownType(type) == [kind |-> "Error: Unknown type", type |-> type]

\* Array.prototype.map with a callback that may throw: the first exception, in
\* the order of the elements, leaves the map; otherwise the mapped list.
mapResults(rs) ==
  IF \E i \in 1..Len(rs) : ~rs[i].ok
  THEN rs[CHOOSE i \in 1..Len(rs) : ~rs[i].ok /\ \A j \in 1..(i - 1) : rs[j].ok]
  ELSE Return([i \in 1..Len(rs) |-> rs[i].val])

\* a JavaScript value, by its typeof and its printed form; the default-value
\* of an argument is a JSON value: a number, a boolean or a string
Val(t, v) == [t |-> t, v |-> v]
UndefinedValue == Val("undefined", "")

----------------------------------------------------------------------------
(* Type resolution *)

\* Array.prototype.find(d => d[0] === name): the place of the first matching
\* entry, 0 standing for the undefined that find returns when none matches
findDomain(domains, name) ==
  IF \E i \in 1..Len(domains) : domains[i][1] = name
  THEN CHOOSE i \in 1..Len(domains) :
         domains[i][1] = name /\ \A j \in 1..(i - 1) : domains[j][1] # name
  ELSE 0

resolveTypeDomainFirst(spec, a) ==
  IF a.domain # undefined
  THEN LET d == findDomain(spec.domains, a.domain)
       IN  IF d = 0 THEN Throw(TypeErrorOfUndefined) ELSE Return(spec.domains[d][2])
  ELSE IF a.type # undefined THEN Return(a.type)
  ELSE Throw(CannotDetermineType)

resolveTypeLenientDomain(spec, a) ==
  IF a.type # undefined THEN Return(a.type)
  ELSE IF a.domain # undefined
  THEN LET d == findDomain(spec.domains, a.domain)
       IN  IF d = 0 THEN Throw(CannotDetermineType) ELSE Return(spec.domains[d][2])
  ELSE Throw(CannotDetermineType)

\* resolveType: the explicit type, else the type of the argument's domain
resolveType(spec, a) ==
  IF a.type # undefined THEN Return(a.type)
  ELSE IF a.domain # undefined
  THEN LET d == findDomain(spec.domains, a.domain)
       IN  IF d = 0 THEN Throw(TypeErrorOfUndefined) ELSE Return(spec.domains[d][2])
  ELSE Throw(CannotDetermineType)

\* resolveTypescriptType: the TypeScript type that stores a primitive type
resolveTypescriptType(type) ==
  CASE type = "longlong" -> Return("bigint")
    [] type \in {"long", "short", "octet"} -> Return("number")
    [] type = "bit" -> Return("boolean")
    [] type \in {"shortstr", "longstr"} -> Return("string")
    [] type = "table" -> Return("Record<string, unknown>")
    [] type = "timestamp" -> Return("bigint")
    [] OTHER -> Throw(UnknownType(type))

\* resolveTypescriptType(resolveType(spec, arg)), as the synthesizers nest them
resolveStorageType(spec, a) ==
  LET t == resolveType(spec, a)
  IN  IF t.ok THEN resolveTypescriptType(t.val) ELSE t

----------------------------------------------------------------------------
(* The synthesizers.  Each returns the structure of the text it emits. *)

\* clazz.properties || []
propertiesOf(clazz) == IF clazz.hasProperties THEN clazz.properties ELSE <<>>

\* `${pascalCase(clazz.name)}${pascalCase(method.name)}`
methodTypeName(clazz, method) == pascalCase(clazz.name) \o pascalCase(method.name)

\* printClassPropertyInterface: one optional field per property
printClassPropertyInterface(clazz) ==
  LET props == propertiesOf(clazz)
      field(prop) ==
        LET type == resolveTypescriptType(prop.type)
        IN  IF ~type.ok THEN type
            ELSE Return([name |-> camelCase(prop.name), optional |-> TRUE, type |-> type.val])
      fields == mapResults([i \in 1..Len(props) |-> field(props[i])])
  IN  IF ~fields.ok THEN fields
      ELSE Return([name |-> pascalCase(clazz.name)
                              \o <<"P","r","o","p","e","r","t","i","e","s">>,
                   fields |-> fields.val])

\* printMethodArgsInterface: one field per argument, optional when the
\* argument has a default value, with the default as its comment
printMethodArgsInterface(spec, clazz, method) ==
  LET name == methodTypeName(clazz, method) \o <<"A","r","g","s">>
      field(a) ==
        LET isOptional == a.default # UndefinedValue
            comment == IF isOptional THEN a.default ELSE UndefinedValue
            type == resolveStorageType(spec, a)
        IN  IF ~type.ok THEN type
            ELSE Return([comment |-> comment, name |-> camelCase(a.name),
                         optional |-> isOptional, type |-> type.val])
      fields == mapResults([i \in 1..Len(method.arguments) |-> field(method.arguments[i])])
  IN  IF ~fields.ok THEN fields
      ELSE Return([name |-> name, fields |-> fields.val])

\* printMethodValueInterface: the same fields, none optional
printMethodValueInterface(spec, clazz, method) ==
  LET name == methodTypeName(clazz, method)
      field(a) ==
        LET type == resolveStorageType(spec, a)
        IN  IF ~type.ok THEN type
            ELSE Return([name |-> camelCase(a.name), optional |-> FALSE, type |-> type.val])
      fields == mapResults([i \in 1..Len(method.arguments) |-> field(method.arguments[i])])
  IN  IF ~fields.ok THEN fields
      ELSE Return([name |-> name, extends |-> name \o <<"A","r","g","s">>,
                   fields |-> fields.val])

\* the expression getDefaultValue returns: JSON.stringify of the default,
\* wrapped in BigInt( ) or not; "none" when it returns undefined
NoExpression == [wrap |-> "none", json |-> UndefinedValue]

getDefaultValueNoBigInt(spec, a) ==
  IF a.default = UndefinedValue THEN Return(NoExpression)
  ELSE LET type == resolveType(spec, a)
           tsType == resolveTypescriptType(type.val)
       IN  IF ~type.ok THEN type
           ELSE IF ~tsType.ok THEN tsType
           ELSE Return([wrap |-> "literal", json |-> a.default])

\* getDefaultValue: the text of the default, BigInt(...) for a bigint field
getDefaultValue(spec, a) ==
  IF a.default = UndefinedValue THEN Return(NoExpression)
  ELSE LET type == resolveType(spec, a)
           tsType == resolveTypescriptType(type.val)
       IN  IF ~type.ok THEN type
           ELSE IF ~tsType.ok THEN tsType
           ELSE IF tsType.val = "bigint"
                THEN Return([wrap |-> "BigInt", json |-> a.default])
                ELSE Return([wrap |-> "literal", json |-> a.default])

encodeFieldTruthyDefault(spec, a) ==
  LET type == resolveType(spec, a)
      name == camelCase(a.name)
      defaultValue == getDefaultValue(spec, a)
  IN  IF ~type.ok THEN type
      ELSE IF ~defaultValue.ok THEN defaultValue
      ELSE Return([type |-> type.val, arg |-> name,
                   substitute |-> a.default \notin {UndefinedValue, Val("number", "0"),
                                                    Val("boolean", "false"), Val("string", "")},
                   orElse |-> defaultValue.val])

\* one element of the list printEncodeMethodFunction passes to encodeFields:
\* { type, value: args.name !== undefined ? args.name : default } or
\* { type, value: args.name }
encodeField(spec, a) ==
  LET type == resolveType(spec, a)
      name == camelCase(a.name)
      defaultValue == getDefaultValue(spec, a)
  IN  IF ~type.ok THEN type
      ELSE IF ~defaultValue.ok THEN defaultValue
      ELSE Return([type |-> type.val, arg |-> name,
                   substitute |-> a.default # UndefinedValue,
                   orElse |-> defaultValue.val])

\* printEncodeMethodFunction
printEncodeMethodFunction(spec, clazz, method) ==
  LET name == <<"e","n","c","o","d","e">> \o methodTypeName(clazz, method)
      argsName == methodTypeName(clazz, method) \o <<"A","r","g","s">>
      fields == mapResults([i \in 1..Len(method.arguments) |->
                              encodeField(spec, method.arguments[i])])
  IN  IF ~fields.ok THEN fields
      ELSE Return([name |-> name, argsName |-> argsName, classId |-> clazz.id,
                   methodId |-> method.id, fields |-> fields.val])

decodeTypesReversed(spec, method) ==
  mapResults([i \in 1..Len(method.arguments) |->
                resolveType(spec, method.arguments[Len(method.arguments) + 1 - i])])

\* the type list printDecodeMethodFunction passes to decodeFields
decodeTypes(spec, method) ==
  mapResults([i \in 1..Len(method.arguments) |-> resolveType(spec, method.arguments[i])])

\* printDecodeMethodFunction: the type list, then name: fields[i] as type for
\* every argument (index is i + 1, sequences starting at 1)
printDecodeMethodFunction(spec, clazz, method) ==
  LET name == <<"d","e","c","o","d","e">> \o methodTypeName(clazz, method)
      returnName == methodTypeName(clazz, method)
      types == decodeTypes(spec, method)
      prop(i) ==
        LET cast == resolveStorageType(spec, method.arguments[i])
        IN  IF ~cast.ok THEN cast
            ELSE Return([name |-> camelCase(method.arguments[i].name), index |-> i,
                         cast |-> cast.val])
      props == mapResults([i \in 1..Len(method.arguments) |-> prop(i)])
  IN  IF ~types.ok THEN types
      ELSE IF ~props.ok THEN props
      ELSE Return([name |-> name, returnName |-> returnName, types |-> types.val,
                   props |-> props.val])

\* printMethodDecoder: a case per class, in it a case per method that calls the
\* method's decoder by name, and the class's name for the default's message
printMethodDecoder(spec) ==
  Return([classes |-> [i \in 1..Len(spec.classes) |->
    LET clazz == spec.classes[i]
    IN  [classId |-> clazz.id, className |-> clazz.name,
         methods |-> [j \in 1..Len(clazz.methods) |->
            [methodId |-> clazz.methods[j].id,
             decoder |-> <<"d","e","c","o","d","e">>
                           \o methodTypeName(clazz, clazz.methods[j])]]]]])

\* printEncodeHeaderFunction: class id, a zero, the size, then one
\* { type, value: props.name } per property; no type is looked up
printEncodeHeaderFunction(clazz) ==
  LET name == <<"e","n","c","o","d","e">> \o pascalCase(clazz.name)
                \o <<"H","e","a","d","e","r">>
      props == propertiesOf(clazz)
  IN  Return([name |-> name, classId |-> clazz.id, weight |-> 0,
              fields |-> [i \in 1..Len(props) |->
                            [type |-> props[i].type, prop |-> camelCase(props[i].name)]]])

decodeHeaderPropsShifted(clazz) ==
  LET props == propertiesOf(clazz)
      prop(i) ==
        LET cast == resolveTypescriptType(props[i].type)
        IN  IF ~cast.ok THEN cast
            ELSE Return([name |-> camelCase(props[i].name),
                         index |-> IF i < Len(props) THEN i + 1 ELSE 1,
                         cast |-> cast.val])
  IN  mapResults([i \in 1..Len(props) |-> prop(i)])

\* the name: fields[i] as type list of printDecodeHeaderFunction
decodeHeaderProps(clazz) ==
  LET props == propertiesOf(clazz)
      prop(i) ==
        LET cast == resolveTypescriptType(props[i].type)
        IN  IF ~cast.ok THEN cast
            ELSE Return([name |-> camelCase(props[i].name), index |-> i, cast |-> cast.val])
  IN  mapResults([i \in 1..Len(props) |-> prop(i)])

\* printDecodeHeaderFunction: reads the weight and the size, then the
\* properties by the class's type list; returns the class id as a literal
printDecodeHeaderFunction(clazz) ==
  LET name == <<"d","e","c","o","d","e">> \o pascalCase(clazz.name)
                \o <<"H","e","a","d","e","r">>
      props == propertiesOf(clazz)
      fields == decodeHeaderProps(clazz)
  IN  IF ~fields.ok THEN fields
      ELSE Return([name |-> name, types |-> [i \in 1..Len(props) |-> props[i].type],
                   props |-> fields.val, classId |-> clazz.id])

\* printHeaderDecoder: a case per class that calls the class's header decoder
printHeaderDecoder(spec) ==
  Return([classes |-> [i \in 1..Len(spec.classes) |->
    [classId |-> spec.classes[i].id,
     decoder |-> <<"d","e","c","o","d","e">> \o pascalCase(spec.classes[i].name)
                   \o <<"H","e","a","d","e","r">>]]])

----------------------------------------------------------------------------
(* The field codec the emitted code calls as enc.  It is outside this      *)
(* file; it is taken to write each value with its type and to read back,   *)
(* position by position, what was written with the type asked for.         *)

Tok(k, n, f) == [k |-> k, n |-> n, f |-> f]

encodeShortUint(n) == <<Tok("short", n, <<>>)>>
encodeLongLongUint(n) == <<Tok("longlong", n, <<>>)>>
encodeFields(list) == <<Tok("fields", 0, list)>>
encodeOptionalFields(list) == <<Tok("optional", 0, list)>>

CodecError == [kind |-> "codec: unexpected end or kind of data"]
Garbled == Val("garbled", "")

\* the next item of kind k under the cursor r
readItem(r, k) ==
  IF r # <<>> /\ Head(r).k = k THEN Return(Head(r)) ELSE Throw(CodecError)

\* decodeFields / decodeOptionalFields: the values written, by position; a
\* value read with another type than it was written with is garbled
decodeFieldList(item, types) ==
  [i \in 1..Len(types) |->
     IF i <= Len(item.f) /\ item.f[i].type = types[i] THEN item.f[i].value ELSE Garbled]

----------------------------------------------------------------------------
(* What the emitted functions do when they run *)

\* BigInt(v) for the JSON values a default can be
BigInt(v) ==
  CASE v.t = "number" -> Val("bigint", v.v)
    [] v.t = "boolean" -> Val("bigint", IF v.v = "true" THEN "1" ELSE "0")
    [] v.t = "string" /\ v.v = "" -> Val("bigint", "0")
    [] OTHER -> Val("SyntaxError", v.v)

\* the value of the text getDefaultValue returned
evalDefault(e) == IF e.wrap = "BigInt" THEN BigInt(e.json) ELSE e.json

\* the emitted encode<Class><Method>(args)
runEncodeMethod(fn, args) ==
  LET value(f) ==
        IF f.substitute
        THEN IF args[f.arg] # UndefinedValue THEN args[f.arg] ELSE evalDefault(f.orElse)
        ELSE args[f.arg]
  IN  encodeShortUint(fn.classId) \o encodeShortUint(fn.methodId)
        \o encodeFields([i \in 1..Len(fn.fields) |->
                           [type |-> fn.fields[i].type, value |-> value(fn.fields[i])]])

\* an object literal { name: fields[i], ... }: a later entry of the same
\* name replaces an earlier one
objectLiteral(props, fields) ==
  [n \in {props[i].name : i \in 1..Len(props)} |->
     LET last == CHOOSE i \in 1..Len(props) :
                   props[i].name = n /\ \A j \in (i + 1)..Len(props) : props[j].name # n
     IN  fields[props[last].index]]

\* the emitted decode<Class><Method>(r)
runDecodeMethodFunction(fn, r) ==
  LET item == readItem(r, "fields")
  IN  IF ~item.ok THEN item
      ELSE Return(objectLiteral(fn.props, decodeFieldList(item.val, fn.types)))

\* a switch: the place of the first case whose label is v, 0 for default
firstCase(labels, v) ==
  IF \E i \in 1..Len(labels) : labels[i] = v
  THEN CHOOSE i \in 1..Len(labels) : labels[i] = v /\ \A j \in 1..(i - 1) : labels[j] # v
  ELSE 0

\* every (class, method) place of the schema
allMethods(spec) ==
  UNION {{<<i, j>> : j \in 1..Len(spec.classes[i].methods)} : i \in 1..Len(spec.classes)}

classAt(spec, p) == spec.classes[p[1]]
methodAt(spec, p) == spec.classes[p[1]].methods[p[2]]

\* the generator's driver calls every synthesizer on every class and method;
\* the generated module exists when none of them throws
generated(spec) ==
  /\ \A p \in allMethods(spec) :
       /\ printMethodArgsInterface(spec, classAt(spec, p), methodAt(spec, p)).ok
       /\ printMethodValueInterface(spec, classAt(spec, p), methodAt(spec, p)).ok
       /\ printEncodeMethodFunction(spec, classAt(spec, p), methodAt(spec, p)).ok
       /\ printDecodeMethodFunction(spec, classAt(spec, p), methodAt(spec, p)).ok
  /\ \A i \in 1..Len(spec.classes) :
       /\ printClassPropertyInterface(spec.classes[i]).ok
       /\ printDecodeHeaderFunction(spec.classes[i]).ok

\* the decode<Class><Method> functions of the generated module
methodDecoders(spec) ==
  {printDecodeMethodFunction(spec, classAt(spec, p), methodAt(spec, p)).val :
     p \in allMethods(spec)}

\* the decode<Class>Header functions of the generated module
headerDecoders(spec) ==
  {printDecodeHeaderFunction(spec.classes[i]).val : i \in 1..Len(spec.classes)}

\* the function a call by name reaches
callee(fns, name) == CHOOSE f \in fns : f.name = name

UnknownClass(classId) == [kind |-> "Error: Unknown class", classId |-> classId]
UnknownMethod(methodId, className) ==
  [kind |-> "Error: Unknown method", methodId |-> methodId, className |-> className]

\* the default: of the inner switch:
\* throw new Error("Unknown method " + methodId + " for class '<name>'")
unknownMethod(cases, c, methodId) == Throw(UnknownMethod(methodId, cases[c].className))

dispatchMethodLastCase(cases, c, methodId) ==
  LET labels == [j \in 1..Len(cases[c].methods) |-> cases[c].methods[j].methodId]
      m == IF \E j \in 1..Len(labels) : labels[j] = methodId THEN Len(labels) ELSE 0
  IN  IF m = 0 THEN unknownMethod(cases, c, methodId) ELSE Return(cases[c].methods[m].decoder)

\* the inner switch(methodId) of class case c: the decoder to call
dispatchMethod(cases, c, methodId) ==
  LET labels == [j \in 1..Len(cases[c].methods) |-> cases[c].methods[j].methodId]
      m == firstCase(labels, methodId)
  IN  IF m = 0 THEN unknownMethod(cases, c, methodId) ELSE Return(cases[c].methods[m].decoder)

\* the emitted decodeMethod(data)
runDecodeMethod(spec, data) ==
  LET cases == printMethodDecoder(spec).val.classes
      classId == readItem(data, "short")
      methodId == readItem(Tail(data), "short")
      r == Tail(Tail(data))
      c == firstCase([i \in 1..Len(cases) |-> cases[i].classId], classId.val.n)
      decoder == dispatchMethod(cases, c, methodId.val.n)
      args == runDecodeMethodFunction(callee(methodDecoders(spec), decoder.val), r)
  IN  IF ~classId.ok THEN classId
      ELSE IF ~methodId.ok THEN methodId
      ELSE IF c = 0 THEN Throw(UnknownClass(classId.val.n))
      ELSE IF ~decoder.ok THEN decoder
      ELSE IF ~args.ok THEN args
      ELSE Return([classId |-> classId.val.n, methodId |-> methodId.val.n,
                   args |-> args.val])

\* the emitted encode<Class>Header(size, props)
runEncodeHeader(fn, size, props) ==
  encodeShortUint(fn.classId) \o encodeShortUint(fn.weight) \o encodeLongLongUint(size)
    \o encodeOptionalFields([i \in 1..Len(fn.fields) |->
                               [type |-> fn.fields[i].type, value |-> props[fn.fields[i].prop]]])

\* the emitted decode<Class>Header(r)
runDecodeHeaderFunction(fn, r) ==
  LET weight == readItem(r, "short")
      size == readItem(Tail(r), "longlong")
      item == readItem(Tail(Tail(r)), "optional")
  IN  IF ~weight.ok THEN weight
      ELSE IF ~size.ok THEN size
      ELSE IF ~item.ok THEN item
      ELSE Return([classId |-> fn.classId, size |-> size.val.n,
                   props |-> objectLiteral(fn.props, decodeFieldList(item.val, fn.types))])

\* the emitted decodeHeader(data)
runDecodeHeader(spec, data) ==
  LET cases == printHeaderDecoder(spec).val.classes
      classId == readItem(data, "short")
      c == firstCase([i \in 1..Len(cases) |-> cases[i].classId], classId.val.n)
  IN  IF ~classId.ok THEN classId
      ELSE IF c = 0 THEN Throw(UnknownClass(classId.val.n))
      ELSE runDecodeHeaderFunction(callee(headerDecoders(spec), cases[c].decoder), Tail(data))

----------------------------------------------------------------------------
(* The inputs: identifiers, arguments, domain tables and schemas *)

\* the characters generated identifiers are made of
Alphabet == {"a", "b", "1", "-", "."}

\* the examples of the documentation
QueueName == <<"q","u","e","u","e","-","n","a","m","e">>
FrameMinSize == <<"f","r","a","m","e","-","m","i","n","-","s","i","z","e">>

\* non-empty identifiers of lowercase letters, digits, hyphens and dots
Identifiers ==
  UNION {[1..n -> Alphabet] : n \in 1..MaxLen} \cup {QueueName, FrameMinSize}

Arg(type, domain, name, default) ==
  [type |-> type, domain |-> domain, name |-> name, default |-> default]

DomainNames == {"d1", "d2"}

\* domain tables: lists of [name, type] pairs, names may repeat
DomainTables ==
  UNION {[1..n -> DomainNames \X {"bit", "longlong", "foo"}] : n \in 0..MaxDomains}

\* the arguments type resolution is tried on
ResolveArgs ==
  {Arg(t, d, <<"a">>, UndefinedValue) :
     t \in {undefined, "shortstr", "long", "timestamp", "foo"},
     d \in {undefined} \cup DomainNames}

xs(n) == [k \in 1..n |-> "x"]
classNameAt(i) == <<"c", "-">> \o xs(i)
methodNameAt(j) == <<"m", ".">> \o xs(j) \o <<"-", "o", "k">>
argNameAt(k) == (IF k % 2 = 1 THEN <<"a", "-">> ELSE <<"a", ".">>) \o xs(k)
propNameAt(k) == (IF k % 2 = 1 THEN <<"p", ".">> ELSE <<"p", "-">>) \o xs(k)
classIdAt(i) == 10 * i
methodIdAt(j) == 39 + j

\* how an argument can be typed and defaulted: [type, domain, default-value]
ArgShapes ==
  {<<"shortstr", undefined, UndefinedValue>>, <<"shortstr", undefined, Val("string", "")>>,
   <<"longlong", undefined, UndefinedValue>>, <<"longlong", undefined, Val("number", "0")>>,
   <<"foo", undefined, UndefinedValue>>, <<"foo", undefined, Val("number", "0")>>,
   <<undefined, "d1", UndefinedValue>>, <<undefined, "d1", Val("number", "0")>>,
   <<undefined, undefined, UndefinedValue>>}

ArgLists ==
  UNION {{[k \in 1..n |-> Arg(f[k][1], f[k][2], argNameAt(k), f[k][3])] :
            f \in [1..n -> ArgShapes]} : n \in 0..MaxArgs}

Prop(type, name) == [type |-> type, name |-> name]

PropLists ==
  UNION {{[k \in 1..n |-> Prop(f[k], propNameAt(k))] :
            f \in [1..n -> {"shortstr", "longlong", "foo"}]} : n \in 0..MaxProps}

Method(id, name, arguments) == [id |-> id, name |-> name, arguments |-> arguments]

Class(id, name, methods, hasProperties, properties) ==
  [id |-> id, name |-> name, methods |-> methods,
   hasProperties |-> hasProperties, properties |-> properties]

\* domains is the list of [name, type] pairs that resolveType searches; the
\* constants of a schema are read by none of these functions
Schema(domains, classes) == [domains |-> domains, classes |-> classes]

\* the arguments of the methods whose argument list does not vary
plainArgs(n) ==
  [k \in 1..n |->
     IF k % 2 = 1 THEN Arg("shortstr", undefined, argNameAt(k), UndefinedValue)
     ELSE Arg("longlong", undefined, argNameAt(k), Val("number", "0"))]

\* two classes; the first method of the first class has the given arguments,
\* the first class the given properties
schemaWith(domains, arguments, hasProperties, properties) ==
  Schema(domains,
    <<Class(classIdAt(1), classNameAt(1),
            <<Method(methodIdAt(1), methodNameAt(1), arguments),
              Method(methodIdAt(2), methodNameAt(2), plainArgs(1))>>,
            hasProperties, properties),
      Class(classIdAt(2), classNameAt(2),
            <<Method(methodIdAt(1), methodNameAt(1), <<>>)>>, FALSE, <<>>)>>)

\* schemas that differ in the arguments of one method
MethodSchemas ==
  {schemaWith(d, a, TRUE, <<Prop("shortstr", propNameAt(1))>>) :
     d \in {<<>>, <<<<"d1", "long">>>>}, a \in ArgLists}

\* schemas that differ in the properties of one class
HeaderSchemas ==
  {schemaWith(<<>>, plainArgs(2), TRUE, p) : p \in PropLists}
    \cup {schemaWith(<<>>, plainArgs(2), FALSE, <<>>)}

\* schemas that differ in their numbers of classes and methods; class and
\* method ids are unique, as the protocol description has them
ShapeSchemas ==
  UNION {{Schema(<<>>,
            [i \in 1..n |->
               Class(classIdAt(i), classNameAt(i),
                     [j \in 1..f[i] |-> Method(methodIdAt(j), methodNameAt(j), plainArgs((i + j) % 3))],
                     TRUE, <<Prop("longlong", propNameAt(1)), Prop("shortstr", propNameAt(2))>>)]) :
            f \in [1..n -> 0..MaxMethods]} : n \in 0..MaxClasses}

Schemas == MethodSchemas \cup HeaderSchemas \cup ShapeSchemas

NoSchema == Schema(<<>>, <<>>)
NoArg == Arg(undefined, undefined, <<>>, UndefinedValue)
NoCall == [fn |-> "none", res |-> Return(undefined)]
NothingSent == [kind |-> "none"]

\* values a caller passes for a field of a TypeScript type
samples(tsType) ==
  CASE tsType = "bigint" -> {Val("bigint", "0"), Val("bigint", "7")}
    [] tsType = "number" -> {Val("number", "0"), Val("number", "7")}
    [] tsType = "boolean" -> {Val("boolean", "false"), Val("boolean", "true")}
    [] tsType = "string" -> {Val("string", ""), Val("string", "x")}
    [] OTHER -> {Val("object", "{}")}

AllValues ==
  {UndefinedValue} \cup UNION {samples(t) : t \in {"bigint", "number", "boolean", "string"}}

\* the objects that satisfy a declaration: a value of its type for every
\* field, or none for an optional field
instances(fields) ==
  {o \in [{fields[i].name : i \in 1..Len(fields)} -> AllValues] :
     \A i \in 1..Len(fields) :
       \/ o[fields[i].name] \in samples(fields[i].type)
       \/ fields[i].optional /\ o[fields[i].name] = UndefinedValue}

----------------------------------------------------------------------------
(* Calls of the name functions on an identifier *)

Called(fn, res) == [fn |-> fn, res |-> res]

InitNames ==
  /\ ident \in Identifiers
  /\ schema = NoSchema
  /\ arg = NoArg
  /\ out = NoCall
  /\ wire = <<>>
  /\ sent = NothingSent

CallCapitalize ==
  /\ out' = Called("capitalize", Return(capitalize(ident)))
  /\ UNCHANGED <<schema, ident, arg, wire, sent>>

CallCamelCase ==
  /\ out' = Called("camelCase", Return(camelCase(ident)))
  /\ UNCHANGED <<schema, ident, arg, wire, sent>>

CallPascalCase ==
  /\ out' = Called("pascalCase", Return(pascalCase(ident)))
  /\ UNCHANGED <<schema, ident, arg, wire, sent>>

CallConstantName ==
  /\ out' = Called("constantName", Return(constantName(ident)))
  /\ UNCHANGED <<schema, ident, arg, wire, sent>>

NextNames == CallCapitalize \/ CallCamelCase \/ CallPascalCase \/ CallConstantName

SpecNames == InitNames /\ [][NextNames]_vars

----------------------------------------------------------------------------
(* Calls of the type resolution on an argument and a domain table *)

InitTypes ==
  /\ schema \in {Schema(d, <<>>) : d \in DomainTables}
  /\ arg \in ResolveArgs
  /\ ident = <<>>
  /\ out = NoCall
  /\ wire = <<>>
  /\ sent = NothingSent

CallResolveType ==
  /\ out' = Called("resolveType", resolveType(schema, arg))
  /\ UNCHANGED <<schema, ident, arg, wire, sent>>

\* on the primitive type the argument resolved to
CallResolveTypescriptType ==
  /\ resolveType(schema, arg).ok
  /\ out' = Called("resolveTypescriptType",
                   resolveTypescriptType(resolveType(schema, arg).val))
  /\ UNCHANGED <<schema, ident, arg, wire, sent>>

NextTypes == CallResolveType \/ CallResolveTypescriptType

SpecTypes == InitTypes /\ [][NextTypes]_vars

----------------------------------------------------------------------------
(* A generation run over a schema, then the generated module at work: a    *)
(* method or a header is encoded and put on the wire (or a peer puts one   *)
(* there), and the dispatching decoder takes it off.                       *)

CalledAt(fn, at, res) == [fn |-> fn, at |-> at, res |-> res]

Init ==
  /\ schema \in Schemas
  /\ ident = <<>>
  /\ arg = NoArg
  /\ out = NoCall
  /\ wire = <<>>
  /\ sent = NothingSent

\* a run makes one call of a synthesizer, or sends and receives one frame
\* with the generated module
generating == out = NoCall /\ wire = <<>> /\ sent = NothingSent

CallPrintClassPropertyInterface ==
  \E i \in 1..Len(schema.classes) :
    /\ generating
    /\ out' = CalledAt("printClassPropertyInterface", <<i, 0>>,
                       printClassPropertyInterface(schema.classes[i]))
    /\ UNCHANGED <<schema, ident, arg, wire, sent>>

CallPrintMethodArgsInterface ==
  \E p \in allMethods(schema) :
    /\ generating
    /\ out' = CalledAt("printMethodArgsInterface", p,
                       printMethodArgsInterface(schema, classAt(schema, p), methodAt(schema, p)))
    /\ UNCHANGED <<schema, ident, arg, wire, sent>>

CallPrintMethodValueInterface ==
  \E p \in allMethods(schema) :
    /\ generating
    /\ out' = CalledAt("printMethodValueInterface", p,
                       printMethodValueInterface(schema, classAt(schema, p), methodAt(schema, p)))
    /\ UNCHANGED <<schema, ident, arg, wire, sent>>

CallPrintEncodeMethodFunction ==
  \E p \in allMethods(schema) :
    /\ generating
    /\ out' = CalledAt("printEncodeMethodFunction", p,
                       printEncodeMethodFunction(schema, classAt(schema, p), methodAt(schema, p)))
    /\ UNCHANGED <<schema, ident, arg, wire, sent>>

CallPrintDecodeMethodFunction ==
  \E p \in allMethods(schema) :
    /\ generating
    /\ out' = CalledAt("printDecodeMethodFunction", p,
                       printDecodeMethodFunction(schema, classAt(schema, p), methodAt(schema, p)))
    /\ UNCHANGED <<schema, ident, arg, wire, sent>>

CallPrintMethodDecoder ==
  /\ generating
  /\ out' = CalledAt("printMethodDecoder", <<0, 0>>, printMethodDecoder(schema))
  /\ UNCHANGED <<schema, ident, arg, wire, sent>>

CallPrintEncodeHeaderFunction ==
  \E i \in 1..Len(schema.classes) :
    /\ generating
    /\ out' = CalledAt("printEncodeHeaderFunction", <<i, 0>>,
                       printEncodeHeaderFunction(schema.classes[i]))
    /\ UNCHANGED <<schema, ident, arg, wire, sent>>

CallPrintDecodeHeaderFunction ==
  \E i \in 1..Len(schema.classes) :
    /\ generating
    /\ out' = CalledAt("printDecodeHeaderFunction", <<i, 0>>,
                       printDecodeHeaderFunction(schema.classes[i]))
    /\ UNCHANGED <<schema, ident, arg, wire, sent>>

CallPrintHeaderDecoder ==
  /\ generating
  /\ out' = CalledAt("printHeaderDecoder", <<0, 0>>, printHeaderDecoder(schema))
  /\ UNCHANGED <<schema, ident, arg, wire, sent>>

\* a caller encodes a method with arguments that satisfy its Args declaration
SendMethod ==
  \E p \in allMethods(schema) :
    /\ generating
    /\ generated(schema)
    /\ \E a \in instances(printMethodArgsInterface(schema, classAt(schema, p),
                                                   methodAt(schema, p)).val.fields) :
         /\ wire' = runEncodeMethod(
                      printEncodeMethodFunction(schema, classAt(schema, p),
                                                methodAt(schema, p)).val, a)
         /\ sent' = [kind |-> "method", at |-> p, args |-> a]
         /\ out' = CalledAt("encodeMethod", p, Return(wire'))
    /\ UNCHANGED <<schema, ident, arg>>

\* ids a peer may send: those of the classes and methods a schema can have,
\* and some no schema has
PeerClassIds == {classIdAt(i) : i \in 1..(MaxClasses + 1)} \cup {77}
PeerMethodIds == {methodIdAt(j) : j \in 1..(MaxMethods + 1)} \cup {99}
PeerPayloads == {<<>>, <<[type |-> "shortstr", value |-> Val("string", "x")]>>}

\* a method frame arrives from the peer
PeerSendsMethod ==
  \E c \in PeerClassIds, m \in PeerMethodIds, f \in PeerPayloads :
    /\ generating
    /\ generated(schema)
    /\ wire' = encodeShortUint(c) \o encodeShortUint(m) \o encodeFields(f)
    /\ sent' = [kind |-> "peerMethod", classId |-> c, methodId |-> m, payload |-> f]
    /\ out' = NoCall
    /\ UNCHANGED <<schema, ident, arg>>

\* decodeMethod takes the method frame off the wire
ReceiveMethod ==
  /\ wire # <<>>
  /\ sent.kind \in {"method", "peerMethod"}
  /\ out' = CalledAt("decodeMethod", <<0, 0>>, runDecodeMethod(schema, wire))
  /\ wire' = <<>>
  /\ UNCHANGED <<schema, ident, arg, sent>>

BodySizes == {0, 5}

\* a caller encodes a header with properties that satisfy the class's
\* Properties declaration
SendHeader ==
  \E i \in 1..Len(schema.classes), size \in BodySizes :
    /\ generating
    /\ generated(schema)
    /\ \E props \in instances(printClassPropertyInterface(schema.classes[i]).val.fields) :
         /\ wire' = runEncodeHeader(printEncodeHeaderFunction(schema.classes[i]).val,
                                    size, props)
         /\ sent' = [kind |-> "header", at |-> <<i, 0>>, size |-> size, props |-> props]
         /\ out' = CalledAt("encodeHeader", <<i, 0>>, Return(wire'))
    /\ UNCHANGED <<schema, ident, arg>>

\* a header frame arrives from the peer
PeerSendsHeader ==
  \E c \in PeerClassIds, size \in BodySizes :
    /\ generating
    /\ generated(schema)
    /\ wire' = encodeShortUint(c) \o encodeShortUint(0) \o encodeLongLongUint(size)
                 \o encodeOptionalFields(<<>>)
    /\ sent' = [kind |-> "peerHeader", classId |-> c, size |-> size]
    /\ out' = NoCall
    /\ UNCHANGED <<schema, ident, arg>>

\* decodeHeader takes the header frame off the wire
ReceiveHeader ==
  /\ wire # <<>>
  /\ sent.kind \in {"header", "peerHeader"}
  /\ out' = CalledAt("decodeHeader", <<0, 0>>, runDecodeHeader(schema, wire))
  /\ wire' = <<>>
  /\ UNCHANGED <<schema, ident, arg, sent>>

Next ==
  \/ CallPrintClassPropertyInterface
  \/ CallPrintMethodArgsInterface
  \/ CallPrintMethodValueInterface
  \/ CallPrintEncodeMethodFunction
  \/ CallPrintDecodeMethodFunction
  \/ CallPrintMethodDecoder
  \/ CallPrintEncodeHeaderFunction
  \/ CallPrintDecodeHeaderFunction
  \/ CallPrintHeaderDecoder
  \/ SendMethod
  \/ PeerSendsMethod
  \/ ReceiveMethod
  \/ SendHeader
  \/ PeerSendsHeader
  \/ ReceiveHeader

Spec == Init /\ [][Next]_vars

----------------------------------------------------------------------------
(* Claims about the name functions, under SpecNames *)

noDelimiter(s) == \A i \in 1..Len(s) : ~isDelimiter(s[i])

\* the characters of s that are no delimiter, each upper-cased when it follows
\* a delimiter (or, with upperFirst, when it is the first of s)
lettersRaisedAfterDelimiter(s, upperFirst) ==
  LET NotDelimiter(c) == ~isDelimiter(c)
  IN  SelectSeq([i \in 1..Len(s) |->
                   IF (i = 1 /\ upperFirst) \/ (i > 1 /\ isDelimiter(s[i - 1]))
                   THEN toUpperCase(s[i]) ELSE s[i]],
                NotDelimiter)

\* C9: camelCase keeps the first segment and capitalizes the first letter of
\* every later one, pascalCase capitalizes the first letter of every segment;
\* no output holds a hyphen or a dot, and each function maps its own output
\* to itself; "queue-name" gives "queueName" and "QueueName".
C9_CamelForms ==
  /\ out.fn = "camelCase" =>
       /\ out.res.ok
       /\ out.res.val = lettersRaisedAfterDelimiter(ident, FALSE)
       /\ noDelimiter(out.res.val)
       /\ camelCase(out.res.val) = out.res.val
       /\ ident = QueueName => out.res.val = <<"q","u","e","u","e","N","a","m","e">>
  /\ out.fn = "pascalCase" =>
       /\ out.res.ok
       /\ out.res.val = lettersRaisedAfterDelimiter(ident, TRUE)
       /\ noDelimiter(out.res.val)
       /\ pascalCase(out.res.val) = out.res.val
       /\ ident = QueueName => out.res.val = <<"Q","u","e","u","e","N","a","m","e">>

\* pascalCase has run on an identifier of three segments, two of them empty
C9_Witness ==
  /\ out.fn = "pascalCase"
  /\ ident = <<"-", "b", ".">>
  /\ out.res.val = <<"B">>

\* C5: constantName gives the segments between hyphens and dots, upper-cased
\* and joined by underscores, so its output holds neither hyphen nor dot.
C5_ConstantNameJoinsSegments ==
  out.fn = "constantName" =>
    /\ out.res.val = [i \in 1..Len(ident) |->
                        IF isDelimiter(ident[i]) THEN "_" ELSE toUpperCase(ident[i])]
    /\ noDelimiter(out.res.val)

----------------------------------------------------------------------------
(* Claims about type resolution, under SpecTypes *)

domainListed(spec, a) == \E i \in 1..Len(spec.domains) : spec.domains[i][1] = a.domain

\* C4: an argument without explicit type whose domain is not in the domain
\* table makes resolveType fail, with an error that is not the one raised
\* for an argument with neither type nor domain.
C4_UnknownDomainFails ==
  (/\ out.fn = "resolveType"
   /\ arg.type = undefined
   /\ arg.domain # undefined
   /\ ~domainListed(schema, arg)) =>
     /\ ~out.res.ok
     /\ out.res.val.kind # CannotDetermineType.kind
     /\ out.res.val.kind = "TypeError: undefined has no properties"

\* resolveType has failed on an argument whose domain is not in the table
C4_Witness ==
  /\ out.fn = "resolveType"
  /\ arg.type = undefined
  /\ arg.domain = "d2"
  /\ schema.domains = <<<<"d1", "bit">>>>
  /\ ~out.res.ok

\* C6: resolveType returns the explicit type when there is one, whatever the
\* domain; without one, the type of the (first) table entry of the
\* argument's domain; with neither type nor domain it throws "Cannot
\* determine type"; and the call changes neither schema nor argument.
C6_ResolveTypeResult ==
  [][out'.fn = "resolveType" =>
       /\ schema' = schema
       /\ arg' = arg
       /\ arg.type # undefined => (out'.res.ok /\ out'.res.val = arg.type)
       /\ (arg.type = undefined /\ arg.domain # undefined /\ domainListed(schema, arg)) =>
            \E i \in 1..Len(schema.domains) :
              /\ schema.domains[i][1] = arg.domain
              /\ \A j \in 1..(i - 1) : schema.domains[j][1] # arg.domain
              /\ out'.res.ok
              /\ out'.res.val = schema.domains[i][2]
       /\ (arg.type = undefined /\ arg.domain = undefined) =>
            (~out'.res.ok /\ out'.res.val.kind = "Error: Cannot determine type")]_vars

\* resolveType has returned the explicit type of an argument whose domain is
\* listed with another type
C6_Witness ==
  /\ out.fn = "resolveType"
  /\ arg.type = "shortstr"
  /\ arg.domain = "d1"
  /\ schema.domains = <<<<"d1", "bit">>>>
  /\ out.res.ok
  /\ out.res.val = "shortstr"

----------------------------------------------------------------------------
(* Claims about the synthesizers and the generated module, under Spec *)

encoderAt(p) == printEncodeMethodFunction(schema, classAt(schema, p), methodAt(schema, p))
decoderAt(p) == printDecodeMethodFunction(schema, classAt(schema, p), methodAt(schema, p))
argsInterfaceAt(p) == printMethodArgsInterface(schema, classAt(schema, p), methodAt(schema, p))
valueInterfaceAt(p) == printMethodValueInterface(schema, classAt(schema, p), methodAt(schema, p))

\* a declared default as a value of the field's storage type: the number as a
\* bigint for a bigint field
defaultAsStored(a, tsType) ==
  IF tsType = "bigint" /\ a.default.t = "number" THEN Val("bigint", a.default.v) ELSE a.default

\* the full value of a method call: each argument as supplied, else its default
fullValue(arguments, fields, supplied) ==
  [n \in {fields[k].name : k \in 1..Len(fields)} |->
     LET k == CHOOSE k \in 1..Len(fields) : fields[k].name = n
     IN  IF supplied[n] # UndefinedValue THEN supplied[n]
         ELSE defaultAsStored(arguments[k], fields[k].type)]

\* C1: a method encoded by its emitted encoder and decoded by the emitted
\* decodeMethod comes back with its class id, its method id and, field by
\* field, the full value: the arguments supplied, the declared defaults for
\* those left out.
C1_MethodRoundTrip ==
  (out.fn = "decodeMethod" /\ sent.kind = "method") =>
    LET clazz == classAt(schema, sent.at)
        method == methodAt(schema, sent.at)
        fields == valueInterfaceAt(sent.at).val.fields
    IN  /\ out.res.ok
        /\ out.res.val.classId = clazz.id
        /\ out.res.val.methodId = method.id
        /\ Len(fields) = Len(method.arguments)
        /\ out.res.val.args = fullValue(method.arguments, fields, sent.args)

\* a method came back whose bigint argument was left out and took its default
C1_Witness ==
  /\ out.fn = "decodeMethod"
  /\ sent.kind = "method"
  /\ out.res.ok
  /\ \E n \in DOMAIN sent.args :
       /\ sent.args[n] = UndefinedValue
       /\ out.res.val.args[n] = Val("bigint", "0")
  /\ \E n \in DOMAIN sent.args : sent.args[n] = Val("string", "x")

\* C2: where both synthesizers succeed on a method, the types the encoder
\* passes to encodeFields are, position by position, the types the decoder
\* passes to decodeFields, and the decoder names fields[i] by the lower-camel
\* name of the argument the encoder writes at position i.
C2_PositionalConsistency ==
  (out.fn = "printDecodeMethodFunction" /\ out.res.ok /\ encoderAt(out.at).ok) =>
    LET enc == encoderAt(out.at).val
        dec == out.res.val
        arguments == methodAt(schema, out.at).arguments
    IN  /\ Len(enc.fields) = Len(arguments)
        /\ Len(dec.types) = Len(arguments)
        /\ Len(dec.props) = Len(arguments)
        /\ \A i \in 1..Len(arguments) :
             /\ enc.fields[i].type = dec.types[i]
             /\ dec.props[i].index = i
             /\ dec.props[i].name = lettersRaisedAfterDelimiter(arguments[i].name, FALSE)
             /\ enc.fields[i].arg = dec.props[i].name

\* a decoder of two fields of different types was emitted
C2_Witness ==
  /\ out.fn = "printDecodeMethodFunction"
  /\ out.res.ok
  /\ encoderAt(out.at).ok
  /\ out.res.val.types = <<"shortstr", "long">>

\* the class and the method of the schema with the ids of a frame, 0 for none
classWithId(spec, classId) ==
  firstCase([i \in 1..Len(spec.classes) |-> spec.classes[i].id], classId)
methodWithId(clazz, methodId) ==
  firstCase([j \in 1..Len(clazz.methods) |-> clazz.methods[j].id], methodId)

\* the frame a peer sent has been dispatched by decodeMethod
peerFrameDecoded == out.fn = "decodeMethod" /\ sent.kind = "peerMethod"

\* what the ids of the peer's frame are to the schema
frameCase ==
  LET c == classWithId(schema, sent.classId)
  IN  IF c = 0 THEN "unknown class"
      ELSE IF methodWithId(schema.classes[c], sent.methodId) = 0 THEN "unknown method"
      ELSE "method"

\* decodeMethod on the peer's frame: for a method of the schema, a message
\* with the frame's ids and the arguments that method's own decoder reads;
\* for an unknown class, the error with the class id; for an unknown method
\* of a known class, an error with the method id
dispatched ==
  LET c == classWithId(schema, sent.classId)
      m == methodWithId(schema.classes[c], sent.methodId)
  IN  /\ frameCase = "method" =>
           /\ out.res.ok
           /\ out.res.val.classId = sent.classId
           /\ out.res.val.methodId = sent.methodId
           /\ out.res.val.args =
                runDecodeMethodFunction(decoderAt(<<c, m>>).val,
                                        encodeFields(sent.payload)).val
      /\ frameCase = "unknown class" =>
           /\ ~out.res.ok
           /\ out.res.val.kind = "Error: Unknown class"
           /\ out.res.val.classId = sent.classId
      /\ frameCase = "unknown method" =>
           /\ ~out.res.ok
           /\ out.res.val.kind = "Error: Unknown method"
           /\ out.res.val.methodId = sent.methodId

C7_HeaderRoundTrip ==
  /\ (out.fn = "encodeHeader" /\ sent.kind = "header") =>
       LET clazz == classAt(schema, sent.at)
           props == propertiesOf(clazz)
       IN  /\ Len(wire) = 4
           /\ wire[1] = Tok("short", clazz.id, <<>>)
           /\ wire[2] = Tok("short", 0, <<>>)
           /\ wire[3] = Tok("longlong", sent.size, <<>>)
           /\ wire[4].k = "optional"
           /\ Len(wire[4].f) = Len(props)
           /\ \A i \in 1..Len(props) :
                /\ wire[4].f[i].type = props[i].type
                /\ wire[4].f[i].value =
                     sent.props[lettersRaisedAfterDelimiter(props[i].name, FALSE)]
  /\ (out.fn = "decodeHeader" /\ sent.kind = "header") =>
       /\ out.res.ok
       /\ out.res.val.classId = classAt(schema, sent.at).id
       /\ out.res.val.size = sent.size
       /\ out.res.val.props = sent.props
       /\ \A n \in DOMAIN sent.props :
            sent.props[n] = UndefinedValue => out.res.val.props[n] = UndefinedValue

\* a header came back with one property present and one left out
C7_Witness ==
  /\ out.fn = "decodeHeader"
  /\ sent.kind = "header"
  /\ sent.size = 5
  /\ out.res.ok
  /\ \E n1, n2 \in DOMAIN sent.props :
       /\ sent.props[n1] = UndefinedValue
       /\ out.res.val.props[n1] = UndefinedValue
       /\ sent.props[n2] = Val("bigint", "7")
       /\ out.res.val.props[n2] = Val("bigint", "7")

PrimitiveTypes ==
  {"longlong", "long", "short", "octet", "bit", "shortstr", "longstr", "table", "timestamp"}

\* C10: the encode synthesizer of a method throws exactly when its decode
\* synthesizer does, the header encode synthesizer of a class exactly when
\* its header decode synthesizer does, and no emitted encoder writes a field
\* of a type outside the closed set of primitive types.
C10_SynthesizersAgreeOnErrors ==
  /\ out.fn = "printEncodeMethodFunction" =>
       /\ out.res.ok <=> decoderAt(out.at).ok
       /\ out.res.ok =>
            \A k \in 1..Len(out.res.val.fields) :
              out.res.val.fields[k].type \in PrimitiveTypes
  /\ out.fn = "printEncodeHeaderFunction" =>
       /\ out.res.ok <=> printDecodeHeaderFunction(schema.classes[out.at[1]]).ok
       /\ out.res.ok =>
            \A k \in 1..Len(out.res.val.fields) :
              out.res.val.fields[k].type \in PrimitiveTypes

====
